---- MODULE Spec2Model ----
(***************************************************************************)
(* Persistent hash array mapped trie of keisans/hamt-ts (src/hamt.ts).     *)
(*                                                                         *)
(* Numbers.  The trie code works on JavaScript numbers that are the        *)
(* results of 32-bit operators: int32 values (results of &, |, ^, ~, <<,   *)
(* Math.imul) and uint32 values (results of >>>).  Such a number x is      *)
(* written here as the pair <<hi, lo>> with x = hi * 65536 + lo and        *)
(* lo \in 0..65535; hi is negative exactly when x is.  The pair of a       *)
(* number is unique, so === on numbers is equality of pairs.               *)
(*                                                                         *)
(* Strings are sequences of UTF-16 code units.                             *)
(*                                                                         *)
(* Objects.  Trie nodes live in a heap, a sequence of node records; a      *)
(* reference to a node is its index in the heap, and === on nodes is       *)
(* equality of references.                                                 *)
(***************************************************************************)
EXTENDS Integers, Sequences, FiniteSets, TLC

\* ------------------------------------------------------------------------
\* Bounds of the model
\* ------------------------------------------------------------------------

\* number of insert/remove calls in one run on the keys of DeepKeys
MaxOps == 4

\* number of insert/remove calls in one run on the keys of WideKeys
MaxWideOps == 3

\* number of insert/remove calls in one run on the keys of TallKeys
MaxTallOps == 3

\* number of insert/remove calls in one run whose calls are followed frame
\* by frame
MaxRunOps == 2

\* number of frames the call stack of the engine holds; a call that needs
\* one more throws a RangeError and does not return
MaxStack == 20

\* ------------------------------------------------------------------------
\* JavaScript 32-bit number operators on <<hi, lo>> pairs
\* ------------------------------------------------------------------------

Half == 2 ^ 16

Num(n) == <<n \div Half, n % Half>>

\* ToUint32 / ToInt32 of the ECMAScript specification
ToUint32(x) == <<x[1] % Half, x[2]>>

ToInt32(x) ==
  LET h == x[1] % Half
  IN  <<IF h >= 32768 THEN h - Half ELSE h, x[2]>>

\* bitwise and / or / xor of two 16-bit halves
RECURSIVE And16(_, _)
And16(a, b) ==
  IF a = 0 \/ b = 0 THEN 0
  ELSE (a % 2) * (b % 2) + 2 * And16(a \div 2, b \div 2)

RECURSIVE Or16(_, _)
Or16(a, b) ==
  IF a = 0 THEN b
  ELSE IF b = 0 THEN a
  ELSE (IF a % 2 = 1 \/ b % 2 = 1 THEN 1 ELSE 0) + 2 * Or16(a \div 2, b \div 2)

RECURSIVE Xor16(_, _)
Xor16(a, b) ==
  IF a = 0 THEN b
  ELSE IF b = 0 THEN a
  ELSE ((a + b) % 2) + 2 * Xor16(a \div 2, b \div 2)

\* x & y
BitAnd(x, y) ==
  LET a == ToUint32(x)
      b == ToUint32(y)
  IN  ToInt32(<<And16(a[1], b[1]), And16(a[2], b[2])>>)

\* x | y
BitOr(x, y) ==
  LET a == ToUint32(x)
      b == ToUint32(y)
  IN  ToInt32(<<Or16(a[1], b[1]), Or16(a[2], b[2])>>)

\* x ^ y
BitXor(x, y) ==
  LET a == ToUint32(x)
      b == ToUint32(y)
  IN  ToInt32(<<Xor16(a[1], b[1]), Xor16(a[2], b[2])>>)

\* ~x
BitNot(x) ==
  LET a == ToUint32(x)
  IN  ToInt32(<<65535 - a[1], 65535 - a[2]>>)

\* x >>> s  (the shift count is taken modulo 32, the result is a uint32)
Ushr(x, s) ==
  LET a == ToUint32(x)
      n == s % 32
  IN  IF n >= 16
      THEN <<0, a[1] \div (2 ^ (n - 16))>>
      ELSE <<a[1] \div (2 ^ n), (a[1] % (2 ^ n)) * (2 ^ (16 - n)) + a[2] \div (2 ^ n)>>

\* x << s  (the shift count is taken modulo 32, the result is an int32)
Shl(x, s) ==
  LET a == ToUint32(x)
      n == s % 32
  IN  IF n >= 16
      THEN ToInt32(<<(a[2] % (2 ^ (32 - n))) * (2 ^ (n - 16)), 0>>)
      ELSE ToInt32(<<(a[1] % (2 ^ (16 - n))) * (2 ^ n) + a[2] \div (2 ^ (16 - n)),
                     (a[2] % (2 ^ (16 - n))) * (2 ^ n)>>)

\* x + y and x - y on numbers (no wrap-around: these are not 32-bit operators)
Plus(x, y) ==
  LET lo == x[2] + y[2]
  IN  <<x[1] + y[1] + lo \div Half, lo % Half>>

Minus(x, y) ==
  LET lo == x[2] - y[2]
  IN  <<x[1] - y[1] + lo \div Half, lo % Half>>

\* x < y
Less(x, y) == x[1] < y[1] \/ (x[1] = y[1] /\ x[2] < y[2])

\* the low 16 bits of a * b, for 16-bit a and b
MulLow16(a, b) == (a * (b % 256) + ((a * (b \div 256)) % 256) * 256) % Half

\* the 32-bit product a * b of two 16-bit halves
Mul16(a, b) ==
  LET t0 == a * (b % 256)
      t1 == a * (b \div 256)
      s  == t0 + (t1 % 256) * 256
  IN  <<t1 \div 256 + s \div Half, s % Half>>

\* Math.imul(x, y)
Imul(x, y) ==
  LET a == ToUint32(x)
      b == ToUint32(y)
      p == Mul16(a[2], b[2])
      c == MulLow16(a[1], b[2]) + MulLow16(a[2], b[1])
  IN  ToInt32(<<p[1] + c, p[2]>>)

\* the number as an array index or shift count
ToNat(x) == x[1] * Half + x[2]

\* ------------------------------------------------------------------------
\* Keys, values, Option
\* ------------------------------------------------------------------------

\* "Aa" and "BB" have the same 32-bit hash, 1607165104, with the 5-bit
\* slices 16, 5, 25, ... from shift 0 upwards.
\* "sxk" has the hash 2396978352 with the slices 16, 5, 31, ...: it shares
\* two levels with "Aa" and then takes the highest bit of a bitmap.
\* "m" has the hash 3464365088 with the slices 0, 1, 1, ...: the lowest bit
\* of the root's bitmap.
\* "J" has the hash 816647839 with the slices 31, 20, 3, ...: the highest
\* bit of the root's bitmap.
Aa == <<65, 97>>

BB == <<66, 66>>

sxk == <<115, 120, 107>>

m0 == <<109>>

J == <<74>>

\* "CaA" has the hash 3537169787 with the slices 27, 11, 27, 9, 13, 9, 3;
\* "Epz" and "FQz" have the same hash, 315944315, with the slices
\* 27, 11, 27, 9, 13, 9, 0: they part from "CaA" in the two highest bits only
CaA == <<67, 97, 65>>

Epz == <<69, 112, 122>>

FQz == <<70, 81, 122>>

\* keys that share a path of the trie
DeepKeys == {Aa, BB, sxk}

\* keys that part at the root
WideKeys == {Aa, BB, m0, J}

\* keys that part at the root and two levels below it
BranchKeys == {Aa, sxk, m0}

\* keys that part at the last level of the trie
TallKeys == {CaA, Epz, FQz}

Keys == DeepKeys \cup WideKeys \cup TallKeys

Values == {1, 2}

none == [tag |-> "None"]

some(a) == [tag |-> "Some", value |-> a]

getOrElse(o, a) == IF o = none THEN a ELSE o.value

\* ------------------------------------------------------------------------
\* Nodes
\* ------------------------------------------------------------------------

createLeaf(hsh, key, value) ==
  [type |-> "Leaf", hash |-> hsh, entries |-> << <<key, value>> >>]

createInternal(bitmap, children) ==
  [type |-> "Internal", bitmap |-> bitmap, children |-> children]

\* a new object: the heap with the object appended, and the reference to it
New(hp, obj) == [heap |-> Append(hp, obj), ref |-> Len(hp) + 1]

\* ------------------------------------------------------------------------
\* Hashing and indexing
\* ------------------------------------------------------------------------

RECURSIVE hashLoop(_, _, _)
hashLoop(key, i, h) ==
  IF i < Len(key)
  THEN hashLoop(key, i + 1, BitOr(Plus(Imul(Num(31), h), Num(key[i + 1])), Num(0)))
  ELSE h

hash(key) ==
  LET h0 == hashLoop(key, 0, Num(0))
      h1 == BitXor(h0, Ushr(h0, 16))
      h2 == Imul(h1, <<34283, 51819>>)
      h3 == BitXor(h2, Ushr(h2, 13))
      h4 == Imul(h3, <<49842, 44597>>)
      h5 == BitXor(h4, Ushr(h4, 16))
  IN  Ushr(h5, 0)

\* hash(key) of every key of the model, computed once
keyHash == [key \in Keys |-> hash(key)]

maskHash(hsh, shift) == BitAnd(Ushr(hsh, shift), Num(31))

\* bitpos without the final >>> 0: the bit of slice 31 comes out negative
bitpos_signed(hsh, shift) ==
  LET masked == maskHash(hsh, shift)
  IN  Shl(Num(1), ToNat(masked))

bitpos(hsh, shift) ==
  LET masked == maskHash(hsh, shift)
  IN  Ushr(Shl(Num(1), ToNat(masked)), 0)

popcount(x) ==
  LET x1 == Minus(x, BitAnd(Ushr(x, 1), <<21845, 21845>>))
      x2 == Plus(BitAnd(x1, <<13107, 13107>>), BitAnd(Ushr(x1, 2), <<13107, 13107>>))
      x3 == BitAnd(Plus(x2, Ushr(x2, 4)), <<3855, 3855>>)
      x4 == Plus(x3, Ushr(x3, 8))
      x5 == Plus(x4, Ushr(x4, 16))
  IN  BitAnd(x5, Num(63))

\* ------------------------------------------------------------------------
\* Array helpers
\* ------------------------------------------------------------------------

\* entries.findIndex(([k]) => k === key): 0-based, -1 when there is none
findIndex(entries, key) ==
  LET S == {i \in 1..Len(entries) : entries[i][1] = key}
  IN  IF S = {} THEN -1 ELSE (CHOOSE i \in S : \A j \in S : i <= j) - 1

\* the value of a find that finds nothing
undefined == <<>>

\* entries.find(([k]) => k === key)
find(entries, key) ==
  LET index == findIndex(entries, key)
  IN  IF index = -1 THEN undefined ELSE entries[index + 1]

\* entries.filter(([k]) => k !== key)
filterOut(entries, key) == SelectSeq(entries, LAMBDA e : e[1] # key)

\* [...a.slice(0, idx), x, ...a.slice(idx)]
\* insertAt putting the element at the end whatever the index
insertAt_end(a, idx, x) == Append(a, x)

insertAt(a, idx, x) == SubSeq(a, 1, idx) \o <<x>> \o SubSeq(a, idx + 1, Len(a))

\* [...a.slice(0, idx), ...a.slice(idx + 1)]
removeAt(a, idx) == SubSeq(a, 1, idx) \o SubSeq(a, idx + 2, Len(a))

\* ------------------------------------------------------------------------
\* insert
\* ------------------------------------------------------------------------

\* the results are [heap, node, inserted]: the heap after the call, the
\* reference it returns and the flag it returns

RECURSIVE mergeLeaves(_, _, _, _, _, _)
\* mergeLeaves putting the existing Leaf in slot 0 whatever its bit
mergeLeaves_unordered(hp, shift, node, hsh, key, value) ==
  LET bit1 == bitpos(hp[node].hash, shift)
      bit2 == bitpos(hsh, shift)
  IN  IF bit1 = bit2
      THEN LET newNode == mergeLeaves(hp, shift + 5, node, hsh, key, value)
           IN  New(newNode.heap, createInternal(bit1, <<newNode.ref>>))
      ELSE LET leaf == New(hp, createLeaf(hsh, key, value))
           IN  New(leaf.heap, createInternal(BitOr(bit1, bit2), <<node, leaf.ref>>))

\* mergeLeaves going down four bits of the hash at a time
mergeLeaves_step4(hp, shift, node, hsh, key, value) ==
  LET bit1 == bitpos(hp[node].hash, shift)
      bit2 == bitpos(hsh, shift)
  IN  IF bit1 = bit2
      THEN LET newNode == mergeLeaves(hp, shift + 4, node, hsh, key, value)
           IN  New(newNode.heap, createInternal(bit1, <<newNode.ref>>))
      ELSE LET leaf == New(hp, createLeaf(hsh, key, value))
               children == IF Less(bit1, bit2) THEN <<node, leaf.ref>> ELSE <<leaf.ref, node>>
           IN  New(leaf.heap, createInternal(BitOr(bit1, bit2), children))

mergeLeaves(hp, shift, node, hsh, key, value) ==
  LET bit1 == bitpos(hp[node].hash, shift)
      bit2 == bitpos(hsh, shift)
  IN  IF bit1 = bit2
      THEN LET newNode == mergeLeaves(hp, shift + 5, node, hsh, key, value)
           IN  New(newNode.heap, createInternal(bit1, <<newNode.ref>>))
      ELSE LET leaf == New(hp, createLeaf(hsh, key, value))
               children == IF Less(bit1, bit2) THEN <<node, leaf.ref>> ELSE <<leaf.ref, node>>
           IN  New(leaf.heap, createInternal(BitOr(bit1, bit2), children))

\* updateLeafNode reporting an overwrite as an insertion
updateLeafNode_countsOverwrite(hp, node, hsh, shift, key, value) ==
  IF hp[node].hash = hsh
  THEN LET index == findIndex(hp[node].entries, key)
       IN  IF index # -1
           THEN LET newEntries == [hp[node].entries EXCEPT ![index + 1] = <<key, value>>]
                    n == New(hp, [hp[node] EXCEPT !.entries = newEntries])
                IN  [heap |-> n.heap, node |-> n.ref, inserted |-> TRUE]
           ELSE LET n == New(hp, [hp[node] EXCEPT !.entries = Append(hp[node].entries, <<key, value>>)])
                IN  [heap |-> n.heap, node |-> n.ref, inserted |-> TRUE]
  ELSE LET n == mergeLeaves(hp, shift, node, hsh, key, value)
       IN  [heap |-> n.heap, node |-> n.ref, inserted |-> TRUE]

\* updateLeafNode writing the new value into the entries of the existing Leaf
updateLeafNode_inPlace(hp, node, hsh, shift, key, value) ==
  IF hp[node].hash = hsh
  THEN LET index == findIndex(hp[node].entries, key)
       IN  IF index # -1
           THEN [heap |-> [hp EXCEPT ![node].entries[index + 1] = <<key, value>>],
                 node |-> node, inserted |-> FALSE]
           ELSE LET n == New(hp, [hp[node] EXCEPT !.entries = Append(hp[node].entries, <<key, value>>)])
                IN  [heap |-> n.heap, node |-> n.ref, inserted |-> TRUE]
  ELSE LET n == mergeLeaves(hp, shift, node, hsh, key, value)
       IN  [heap |-> n.heap, node |-> n.ref, inserted |-> TRUE]

\* updateLeafNode without collision entries: a Leaf holds the last key only
updateLeafNode_replacesOnCollision(hp, node, hsh, shift, key, value) ==
  IF hp[node].hash = hsh
  THEN LET index == findIndex(hp[node].entries, key)
           n == New(hp, [hp[node] EXCEPT !.entries = << <<key, value>> >>])
       IN  [heap |-> n.heap, node |-> n.ref, inserted |-> index = -1]
  ELSE LET n == mergeLeaves(hp, shift, node, hsh, key, value)
       IN  [heap |-> n.heap, node |-> n.ref, inserted |-> TRUE]

\* updateLeafNode taking every Leaf it reaches for a Leaf of the key's hash
updateLeafNode_ignoresHash(hp, node, hsh, shift, key, value) ==
  LET index == findIndex(hp[node].entries, key)
  IN  IF index # -1
      THEN LET newEntries == [hp[node].entries EXCEPT ![index + 1] = <<key, value>>]
               n == New(hp, [hp[node] EXCEPT !.entries = newEntries])
           IN  [heap |-> n.heap, node |-> n.ref, inserted |-> FALSE]
      ELSE LET n == New(hp, [hp[node] EXCEPT !.entries = Append(hp[node].entries, <<key, value>>)])
           IN  [heap |-> n.heap, node |-> n.ref, inserted |-> TRUE]

\* updateLeafNode adding an entry for a key the Leaf holds
updateLeafNode_appendsOverwrite(hp, node, hsh, shift, key, value) ==
  IF hp[node].hash = hsh
  THEN LET index == findIndex(hp[node].entries, key)
           n == New(hp, [hp[node] EXCEPT !.entries = Append(hp[node].entries, <<key, value>>)])
       IN  [heap |-> n.heap, node |-> n.ref, inserted |-> index = -1]
  ELSE LET n == mergeLeaves(hp, shift, node, hsh, key, value)
       IN  [heap |-> n.heap, node |-> n.ref, inserted |-> TRUE]

updateLeafNode(hp, node, hsh, shift, key, value) ==
  IF hp[node].hash = hsh
  THEN LET index == findIndex(hp[node].entries, key)
       IN  IF index # -1
           THEN LET newEntries == [hp[node].entries EXCEPT ![index + 1] = <<key, value>>]
                    n == New(hp, [hp[node] EXCEPT !.entries = newEntries])
                IN  [heap |-> n.heap, node |-> n.ref, inserted |-> FALSE]
           ELSE LET n == New(hp, [hp[node] EXCEPT !.entries = Append(hp[node].entries, <<key, value>>)])
                IN  [heap |-> n.heap, node |-> n.ref, inserted |-> TRUE]
  ELSE LET n == mergeLeaves(hp, shift, node, hsh, key, value)
       IN  [heap |-> n.heap, node |-> n.ref, inserted |-> TRUE]

RECURSIVE updateNode(_, _, _, _, _, _)

\* lines 140-145 of updateInternalNode: the Internal node for the result r
\* of updateNode on the child at slot idx
\* replaceChild putting a copy of the first child in the place of the first
\* child when it replaces another slot
replaceChild_copiesFirst(hp, node, idx, r) ==
  LET child == hp[node].children[idx + 1]
  IN  IF r.node = child
      THEN [heap |-> r.heap, node |-> node, inserted |-> FALSE]
      ELSE IF idx = 0
      THEN LET newChildren == [hp[node].children EXCEPT ![idx + 1] = r.node]
               n == New(r.heap, createInternal(hp[node].bitmap, newChildren))
           IN  [heap |-> n.heap, node |-> n.ref, inserted |-> r.inserted]
      ELSE LET copy == New(r.heap, hp[hp[node].children[1]])
               newChildren == [hp[node].children EXCEPT ![idx + 1] = r.node, ![1] = copy.ref]
               n == New(copy.heap, createInternal(hp[node].bitmap, newChildren))
           IN  [heap |-> n.heap, node |-> n.ref, inserted |-> r.inserted]

replaceChild(hp, node, idx, r) ==
  LET child == hp[node].children[idx + 1]
  IN  IF r.node = child
      THEN [heap |-> r.heap, node |-> node, inserted |-> FALSE]
      ELSE LET newChildren == [hp[node].children EXCEPT ![idx + 1] = r.node]
               n == New(r.heap, createInternal(hp[node].bitmap, newChildren))
           IN  [heap |-> n.heap, node |-> n.ref, inserted |-> r.inserted]

\* updateInternalNode pushing a new Leaf at the end of the children
updateInternalNode_appends(hp, node, hsh, shift, key, value) ==
  LET bit == bitpos(hsh, shift)
      idx == ToNat(popcount(BitAnd(hp[node].bitmap, Minus(bit, Num(1)))))
  IN  IF BitAnd(hp[node].bitmap, bit) # Num(0)
      THEN replaceChild(hp, node, idx,
             updateNode(hp, hp[node].children[idx + 1], hsh, shift + 5, key, value))
      ELSE LET newChild == New(hp, createLeaf(hsh, key, value))
               newChildren == Append(hp[node].children, newChild.ref)
               n == New(newChild.heap, createInternal(BitOr(hp[node].bitmap, bit), newChildren))
           IN  [heap |-> n.heap, node |-> n.ref, inserted |-> TRUE]

\* updateInternalNode leaving the bit of a new Leaf out of the bitmap
updateInternalNode_keepsBitmap(hp, node, hsh, shift, key, value) ==
  LET bit == bitpos(hsh, shift)
      idx == ToNat(popcount(BitAnd(hp[node].bitmap, Minus(bit, Num(1)))))
  IN  IF BitAnd(hp[node].bitmap, bit) # Num(0)
      THEN replaceChild(hp, node, idx,
             updateNode(hp, hp[node].children[idx + 1], hsh, shift + 5, key, value))
      ELSE LET newChild == New(hp, createLeaf(hsh, key, value))
               newChildren == insertAt(hp[node].children, idx, newChild.ref)
               n == New(newChild.heap, createInternal(hp[node].bitmap, newChildren))
           IN  [heap |-> n.heap, node |-> n.ref, inserted |-> TRUE]

\* updateInternalNode putting a new Leaf in front of the children
updateInternalNode_prepends(hp, node, hsh, shift, key, value) ==
  LET bit == bitpos(hsh, shift)
      idx == ToNat(popcount(BitAnd(hp[node].bitmap, Minus(bit, Num(1)))))
  IN  IF BitAnd(hp[node].bitmap, bit) # Num(0)
      THEN replaceChild(hp, node, idx,
             updateNode(hp, hp[node].children[idx + 1], hsh, shift + 5, key, value))
      ELSE LET newChild == New(hp, createLeaf(hsh, key, value))
               newChildren == <<newChild.ref>> \o hp[node].children
               n == New(newChild.heap, createInternal(BitOr(hp[node].bitmap, bit), newChildren))
           IN  [heap |-> n.heap, node |-> n.ref, inserted |-> TRUE]

updateInternalNode(hp, node, hsh, shift, key, value) ==
  LET bit == bitpos(hsh, shift)
      idx == ToNat(popcount(BitAnd(hp[node].bitmap, Minus(bit, Num(1)))))
  IN  IF BitAnd(hp[node].bitmap, bit) # Num(0)
      THEN replaceChild(hp, node, idx,
             updateNode(hp, hp[node].children[idx + 1], hsh, shift + 5, key, value))
      ELSE LET newChild == New(hp, createLeaf(hsh, key, value))
               newChildren == insertAt(hp[node].children, idx, newChild.ref)
               n == New(newChild.heap, createInternal(BitOr(hp[node].bitmap, bit), newChildren))
           IN  [heap |-> n.heap, node |-> n.ref, inserted |-> TRUE]

updateNode(hp, node, hsh, shift, key, value) ==
  IF hp[node].type = "Leaf"
  THEN updateLeafNode(hp, node, hsh, shift, key, value)
  ELSE updateInternalNode(hp, node, hsh, shift, key, value)

\* lines 81-82 of insert: [updatedRoot, sizeChange] for the result r of
\* updateNode on the root
insertedRoot(r) ==
  [heap |-> r.heap, root |-> some(r.node),
   sizeChange |-> IF r.inserted THEN 1 ELSE 0]

\* the pipe(hamt.root, fold(...)) of insert: [heap, root, sizeChange]
insertFold(hp, hamt, keyHsh, key, value) ==
  IF hamt.root = none
  THEN LET n == New(hp, createLeaf(keyHsh, key, value))
       IN  [heap |-> n.heap, root |-> some(n.ref), sizeChange |-> 1]
  ELSE insertedRoot(updateNode(hp, hamt.root.value, keyHsh, 0, key, value))

\* lines 87-90 of insert: the map returned for the result u of the fold
insertReturn(hamt, u) ==
  [heap |-> u.heap,
   hamt |-> [root |-> u.root, size |-> hamt.size + u.sizeChange]]

\* the result is [heap, hamt]: the heap after the call and the map it returns
insert(hp, hamt, key, value) ==
  insertReturn(hamt, insertFold(hp, hamt, keyHash[key], key, value))

\* ------------------------------------------------------------------------
\* lookup
\* ------------------------------------------------------------------------

lookupLeafNode(hp, node, hsh, key) ==
  IF hp[node].hash = hsh
  THEN LET entry == find(hp[node].entries, key)
       IN  IF entry # undefined THEN some(entry[2]) ELSE none
  ELSE none

RECURSIVE lookupNode(_, _, _, _, _)

lookupInternalNode(hp, node, hsh, shift, key) ==
  LET bit == bitpos(hsh, shift)
  IN  IF BitAnd(hp[node].bitmap, bit) = Num(0)
      THEN none
      ELSE LET idx == ToNat(popcount(BitAnd(hp[node].bitmap, Minus(bit, Num(1)))))
           IN  lookupNode(hp, hp[node].children[idx + 1], hsh, shift + 5, key)

lookupNode(hp, node, hsh, shift, key) ==
  IF hp[node].type = "Leaf"
  THEN lookupLeafNode(hp, node, hsh, key)
  ELSE lookupInternalNode(hp, node, hsh, shift, key)

lookup(hp, hamt, key) ==
  LET kh == keyHash[key]
  IN  IF hamt.root = none THEN none ELSE lookupNode(hp, hamt.root.value, kh, 0, key)

\* ------------------------------------------------------------------------
\* remove
\* ------------------------------------------------------------------------

\* the results are [heap, node, deleted]: the heap after the call, the
\* Option of a reference it returns and the flag it returns

\* removeLeafNode without the test for an unchanged entry list
removeLeafNode_noAbsentCheck(hp, node, hsh, key) ==
  IF hp[node].hash = hsh
  THEN LET newEntries == filterOut(hp[node].entries, key)
       IN  IF Len(newEntries) = 0
           THEN [heap |-> hp, node |-> none, deleted |-> TRUE]
           ELSE LET n == New(hp, [hp[node] EXCEPT !.entries = newEntries])
                IN  [heap |-> n.heap, node |-> some(n.ref), deleted |-> TRUE]
  ELSE [heap |-> hp, node |-> some(node), deleted |-> FALSE]

\* removeLeafNode keeping a Leaf whose last entry it dropped
removeLeafNode_keepsEmpty(hp, node, hsh, key) ==
  IF hp[node].hash = hsh
  THEN LET newEntries == filterOut(hp[node].entries, key)
       IN  IF Len(newEntries) = Len(hp[node].entries)
           THEN [heap |-> hp, node |-> some(node), deleted |-> FALSE]
           ELSE LET n == New(hp, [hp[node] EXCEPT !.entries = newEntries])
                IN  [heap |-> n.heap, node |-> some(n.ref), deleted |-> TRUE]
  ELSE [heap |-> hp, node |-> some(node), deleted |-> FALSE]

removeLeafNode(hp, node, hsh, key) ==
  IF hp[node].hash = hsh
  THEN LET newEntries == filterOut(hp[node].entries, key)
       IN  IF Len(newEntries) = 0
           THEN [heap |-> hp, node |-> none, deleted |-> TRUE]
           ELSE IF Len(newEntries) = Len(hp[node].entries)
           THEN [heap |-> hp, node |-> some(node), deleted |-> FALSE]
           ELSE LET n == New(hp, [hp[node] EXCEPT !.entries = newEntries])
                IN  [heap |-> n.heap, node |-> some(n.ref), deleted |-> TRUE]
  ELSE [heap |-> hp, node |-> some(node), deleted |-> FALSE]

RECURSIVE removeNode(_, _, _, _, _)

\* removedChild returning the original node when the child shrank
removedChild_stale(hp, node, bit, idx, r) ==
  LET child == hp[node].children[idx + 1]
  IN  IF ~r.deleted
      THEN [heap |-> r.heap, node |-> some(node), deleted |-> FALSE]
      ELSE IF r.node = none
      THEN LET newBitmap == BitAnd(hp[node].bitmap, BitNot(bit))
           IN  IF newBitmap = Num(0)
               THEN [heap |-> r.heap, node |-> none, deleted |-> TRUE]
               ELSE LET newChildren == removeAt(hp[node].children, idx)
                        n == New(r.heap, createInternal(newBitmap, newChildren))
                    IN  [heap |-> n.heap, node |-> some(n.ref), deleted |-> TRUE]
      ELSE [heap |-> r.heap, node |-> some(node), deleted |-> TRUE]

\* removedChild clearing the bit and keeping the slot of a removed child
removedChild_noExcise(hp, node, bit, idx, r) ==
  LET child == hp[node].children[idx + 1]
  IN  IF ~r.deleted
      THEN [heap |-> r.heap, node |-> some(node), deleted |-> FALSE]
      ELSE IF r.node = none
      THEN LET newBitmap == BitAnd(hp[node].bitmap, BitNot(bit))
           IN  IF newBitmap = Num(0)
               THEN [heap |-> r.heap, node |-> none, deleted |-> TRUE]
               ELSE LET newChildren == hp[node].children
                        n == New(r.heap, createInternal(newBitmap, newChildren))
                    IN  [heap |-> n.heap, node |-> some(n.ref), deleted |-> TRUE]
      ELSE LET newChildren == [hp[node].children EXCEPT ![idx + 1] = getOrElse(r.node, child)]
               n == New(r.heap, createInternal(hp[node].bitmap, newChildren))
           IN  [heap |-> n.heap, node |-> some(n.ref), deleted |-> TRUE]

\* removedChild keeping an Internal node whose last child was removed
removedChild_noCollapse(hp, node, bit, idx, r) ==
  LET child == hp[node].children[idx + 1]
  IN  IF ~r.deleted
      THEN [heap |-> r.heap, node |-> some(node), deleted |-> FALSE]
      ELSE IF r.node = none
      THEN LET newBitmap == BitAnd(hp[node].bitmap, BitNot(bit))
           IN  IF FALSE
               THEN [heap |-> r.heap, node |-> none, deleted |-> TRUE]
               ELSE LET newChildren == removeAt(hp[node].children, idx)
                        n == New(r.heap, createInternal(newBitmap, newChildren))
                    IN  [heap |-> n.heap, node |-> some(n.ref), deleted |-> TRUE]
      ELSE LET newChildren == [hp[node].children EXCEPT ![idx + 1] = getOrElse(r.node, child)]
               n == New(r.heap, createInternal(hp[node].bitmap, newChildren))
           IN  [heap |-> n.heap, node |-> some(n.ref), deleted |-> TRUE]

\* lines 274-292 of removeInternalNode: the result for the result r of
\* removeNode on the child at slot idx
\* removedChild excising the first child whatever the slot of the child
removedChild_excisesFirst(hp, node, bit, idx, r) ==
  LET child == hp[node].children[idx + 1]
  IN  IF ~r.deleted
      THEN [heap |-> r.heap, node |-> some(node), deleted |-> FALSE]
      ELSE IF r.node = none
      THEN LET newBitmap == BitAnd(hp[node].bitmap, BitNot(bit))
           IN  IF newBitmap = Num(0)
               THEN [heap |-> r.heap, node |-> none, deleted |-> TRUE]
               ELSE LET newChildren == removeAt(hp[node].children, 0)
                        n == New(r.heap, createInternal(newBitmap, newChildren))
                    IN  [heap |-> n.heap, node |-> some(n.ref), deleted |-> TRUE]
      ELSE LET newChildren == [hp[node].children EXCEPT ![idx + 1] = getOrElse(r.node, child)]
               n == New(r.heap, createInternal(hp[node].bitmap, newChildren))
           IN  [heap |-> n.heap, node |-> some(n.ref), deleted |-> TRUE]

\* removedChild without the test of the flag the child returned
removedChild_rebuilds(hp, node, bit, idx, r) ==
  LET child == hp[node].children[idx + 1]
  IN  IF r.node = none
      THEN LET newBitmap == BitAnd(hp[node].bitmap, BitNot(bit))
           IN  IF newBitmap = Num(0)
               THEN [heap |-> r.heap, node |-> none, deleted |-> TRUE]
               ELSE LET newChildren == removeAt(hp[node].children, idx)
                        n == New(r.heap, createInternal(newBitmap, newChildren))
                    IN  [heap |-> n.heap, node |-> some(n.ref), deleted |-> TRUE]
      ELSE LET newChildren == [hp[node].children EXCEPT ![idx + 1] = getOrElse(r.node, child)]
               n == New(r.heap, createInternal(hp[node].bitmap, newChildren))
           IN  [heap |-> n.heap, node |-> some(n.ref), deleted |-> r.deleted]

removedChild(hp, node, bit, idx, r) ==
  LET child == hp[node].children[idx + 1]
  IN  IF ~r.deleted
      THEN [heap |-> r.heap, node |-> some(node), deleted |-> FALSE]
      ELSE IF r.node = none
      THEN LET newBitmap == BitAnd(hp[node].bitmap, BitNot(bit))
           IN  IF newBitmap = Num(0)
               THEN [heap |-> r.heap, node |-> none, deleted |-> TRUE]
               ELSE LET newChildren == removeAt(hp[node].children, idx)
                        n == New(r.heap, createInternal(newBitmap, newChildren))
                    IN  [heap |-> n.heap, node |-> some(n.ref), deleted |-> TRUE]
      ELSE LET newChildren == [hp[node].children EXCEPT ![idx + 1] = getOrElse(r.node, child)]
               n == New(r.heap, createInternal(hp[node].bitmap, newChildren))
           IN  [heap |-> n.heap, node |-> some(n.ref), deleted |-> TRUE]

removeInternalNode(hp, node, hsh, shift, key) ==
  LET bit == bitpos(hsh, shift)
  IN  IF BitAnd(hp[node].bitmap, bit) = Num(0)
      THEN [heap |-> hp, node |-> some(node), deleted |-> FALSE]
      ELSE LET idx == ToNat(popcount(BitAnd(hp[node].bitmap, Minus(bit, Num(1)))))
           IN  removedChild(hp, node, bit, idx,
                 removeNode(hp, hp[node].children[idx + 1], hsh, shift + 5, key))

removeNode(hp, node, hsh, shift, key) ==
  IF hp[node].type = "Leaf"
  THEN removeLeafNode(hp, node, hsh, key)
  ELSE removeInternalNode(hp, node, hsh, shift, key)

Max(a, b) == IF a >= b THEN a ELSE b

\* removedRoot counting a removal whatever removeNode reports
removedRoot_alwaysDeleted(r) ==
  [heap |-> r.heap, root |-> r.node, sizeChange |-> -1]

\* lines 217-218 of remove: [updatedRoot, sizeChange] for the result r of
\* removeNode on the root
removedRoot(r) ==
  [heap |-> r.heap, root |-> r.node,
   sizeChange |-> IF r.deleted THEN -1 ELSE 0]

\* the pipe(hamt.root, fold(...)) of remove: [heap, root, sizeChange]
removeFold(hp, hamt, keyHsh, key) ==
  IF hamt.root = none
  THEN [heap |-> hp, root |-> none, sizeChange |-> 0]
  ELSE removedRoot(removeNode(hp, hamt.root.value, keyHsh, 0, key))

\* lines 223-226 of remove: the map returned for the result u of the fold
removeReturn(hamt, u) ==
  [heap |-> u.heap,
   hamt |-> [root |-> u.root, size |-> Max(0, hamt.size + u.sizeChange)]]

\* the result is [heap, hamt]: the heap after the call and the map it returns
remove(hp, hamt, key) ==
  removeReturn(hamt, removeFold(hp, hamt, keyHash[key], key))

\* ------------------------------------------------------------------------
\* The program: a client that starts from the empty map and keeps calling
\* insert and remove on the map the previous call returned
\* ------------------------------------------------------------------------

VARIABLES
  client,   \* the keys the client uses and the number of calls it makes
  heap,     \* the trie nodes constructed so far
  hamt,     \* the current map value, [root, size]
  hist,     \* history: one record per call made, see Step
  prevHeap, \* history: the heap when the last call was made
  dict      \* history: the dictionary that the calls made so far denote

vars == <<client, heap, hamt, hist, prevHeap, dict>>

\* the lookup results of a map, for every key of the model
View(hp, m) == [k \in Keys |-> lookup(hp, m, k)]

\* the record of one call: the call, the map it was given, and the lookup
\* results of that map when the call was made
Step(op, key, value) ==
  [op |-> op, key |-> key, value |-> value,
   pre |-> hamt, view |-> View(heap, hamt)]

\* the empty map { root: none, size: 0 }
Empty ==
  /\ heap = <<>>
  /\ hamt = [root |-> none, size |-> 0]
  /\ hist = <<>>
  /\ prevHeap = <<>>
  /\ dict = [k \in Keys |-> none]

Init ==
  /\ client = [keys |-> DeepKeys, calls |-> MaxOps]
  /\ Empty

InitWide ==
  /\ client = [keys |-> WideKeys, calls |-> MaxWideOps]
  /\ Empty

InitBranch ==
  /\ client = [keys |-> BranchKeys, calls |-> MaxWideOps]
  /\ Empty

InitTall ==
  /\ client = [keys |-> TallKeys, calls |-> MaxTallOps]
  /\ Empty

\* the client takes the map a call returned as its current map
Returned(r) ==
  /\ heap' = r.heap
  /\ hamt' = r.hamt

Insert(key, value) ==
  /\ Len(hist) < client.calls
  /\ Returned(insert(heap, hamt, key, value))
  /\ hist' = Append(hist, Step("insert", key, value))
  /\ prevHeap' = heap
  /\ UNCHANGED client
  /\ dict' = [dict EXCEPT ![key] = some(value)]

Remove(key) ==
  /\ Len(hist) < client.calls
  /\ Returned(remove(heap, hamt, key))
  /\ hist' = Append(hist, Step("remove", key, 0))
  /\ prevHeap' = heap
  /\ UNCHANGED client
  /\ dict' = [dict EXCEPT ![key] = none]

Next ==
  \/ \E key \in client.keys, value \in Values : Insert(key, value)
  \/ \E key \in client.keys : Remove(key)

\* runs on the keys that share a path
Spec == Init /\ [][Next]_vars

\* runs on the keys that part at the root
SpecWide == InitWide /\ [][Next]_vars

\* runs on the keys that part at the root and below it
SpecBranch == InitBranch /\ [][Next]_vars

\* runs on the keys that part at the last level
SpecTall == InitTall /\ [][Next]_vars

\* ------------------------------------------------------------------------
\* The calls frame by frame: the client calls insert, lookup or remove on
\* its current map and drops the result; the call stack grows by one frame
\* with every call the code makes to updateNode, lookupNode, removeNode or
\* mergeLeaves, and the call returns when the innermost frame makes no call.
\* The map does not change while a call runs, so the frames a call goes
\* through are fixed when it is made: client.pending holds the ones that
\* are still to be entered.
\* ------------------------------------------------------------------------

\* the function that insert, lookup and remove call on the root
nodeFn == [insert |-> "updateNode", lookup |-> "lookupNode", remove |-> "removeNode"]

Frame(fn, node, shift, key) == [fn |-> fn, node |-> node, shift |-> shift, key |-> key]

\* updateLeafNode calling mergeLeaves for every Leaf
updateLeafNode_callsMergeLeaves_always(hp, node, hsh) ==
  TRUE

\* updateLeafNode calls mergeLeaves when the hash of the Leaf is not the
\* hash of the key
updateLeafNode_callsMergeLeaves(hp, node, hsh) ==
  hp[node].hash # hsh

\* the frame that the code of a frame calls next, none when it calls none
Callee(f) ==
  IF f.fn \in DOMAIN nodeFn
  THEN IF hamt.root = none
       THEN none
       ELSE some(Frame(nodeFn[f.fn], hamt.root.value, 0, f.key))
  ELSE IF f.fn = "mergeLeaves"
  THEN IF bitpos(heap[f.node].hash, f.shift) = bitpos(keyHash[f.key], f.shift)
       THEN some(Frame("mergeLeaves", f.node, f.shift + 5, f.key))
       ELSE none
  ELSE IF heap[f.node].type = "Leaf"
  THEN IF f.fn = "updateNode" /\ updateLeafNode_callsMergeLeaves(heap, f.node, keyHash[f.key])
       THEN some(Frame("mergeLeaves", f.node, f.shift, f.key))
       ELSE none
  ELSE IF BitAnd(heap[f.node].bitmap, bitpos(keyHash[f.key], f.shift)) = Num(0)
  THEN none
  ELSE some(Frame(f.fn,
                  heap[f.node].children[
                    ToNat(popcount(BitAnd(heap[f.node].bitmap,
                                          Minus(bitpos(keyHash[f.key], f.shift), Num(1))))) + 1],
                  f.shift + 5, f.key))

\* the frames that are entered after frame f, one calling the next, up to
\* n of them
RECURSIVE Callees(_, _)
Callees(f, n) ==
  IF n = 0 \/ Callee(f) = none
  THEN <<>>
  ELSE <<Callee(f).value>> \o Callees(Callee(f).value, n - 1)

\* the innermost frame
Top == client.stack[Len(client.stack)]

InitRun ==
  /\ client = [keys |-> DeepKeys, calls |-> MaxRunOps, stack |-> <<>>, pending |-> <<>>]
  /\ Empty

\* the client calls insert, lookup or remove
Call(fn, key) ==
  /\ client.stack = <<>>
  /\ client' = [client EXCEPT !.stack = <<Frame(fn, 0, 0, key)>>,
                              !.pending = Callees(Frame(fn, 0, 0, key), MaxStack)]
  /\ UNCHANGED <<heap, hamt, hist, prevHeap, dict>>

\* the innermost frame makes its call
Recurse ==
  /\ client.stack # <<>>
  /\ client.pending # <<>>
  /\ Len(client.stack) < MaxStack
  /\ client' = [client EXCEPT !.stack = Append(@, Head(client.pending)),
                              !.pending = Tail(@)]
  /\ UNCHANGED <<heap, hamt, hist, prevHeap, dict>>

\* the innermost frame makes no call: the frames return one to the other
\* and the client drops the result
Return ==
  /\ client.stack # <<>>
  /\ client.pending = <<>>
  /\ client' = [client EXCEPT !.stack = <<>>]
  /\ UNCHANGED <<heap, hamt, hist, prevHeap, dict>>

NextRun ==
  \/ client.stack = <<>> /\ Next
  \/ \E fn \in DOMAIN nodeFn, key \in client.keys : Call(fn, key)
  \/ Recurse
  \/ Return

\* a call that was made runs on: the engine runs a call to its end before
\* it runs anything else
SpecRun == InitRun /\ [][NextRun]_vars /\ WF_vars(Recurse \/ Return)

\* ------------------------------------------------------------------------
\* Vocabulary of the properties
\* ------------------------------------------------------------------------

\* the last call made
last == hist[Len(hist)]

Called(op) == Len(hist) > 0 /\ last.op = op

\* the keys the calls made so far have left in the map
Stored == {k \in Keys : dict[k] # none}

\* the entries of all Leaves reachable from a node, left to right
RECURSIVE entriesOf(_, _)
RECURSIVE entriesOfAll(_, _)
entriesOf(hp, node) ==
  IF hp[node].type = "Leaf"
  THEN hp[node].entries
  ELSE entriesOfAll(hp, hp[node].children)

entriesOfAll(hp, nodes) ==
  IF nodes = <<>>
  THEN <<>>
  ELSE entriesOf(hp, Head(nodes)) \o entriesOfAll(hp, Tail(nodes))

\* the number of leaf entries reachable from the root of a map
EntryCount(hp, m) ==
  IF m.root = none THEN 0 ELSE Len(entriesOf(hp, m.root.value))

\* ------------------------------------------------------------------------
\* C1  Insert-then-lookup: in the map insert(m, k, v) returns, lookup of k
\*     is Some(v), also when k was stored in m and when another stored key
\*     has the hash of k.
\* ------------------------------------------------------------------------
InsertThenLookup ==
  Called("insert") => lookup(heap, hamt, last.key) = some(last.value)

\* an insert of a stored key, with another value, into a Leaf that also
\* holds a key of the same hash
InsertThenLookupWitness ==
  /\ Called("insert")
  /\ last.view[last.key] # none
  /\ last.view[last.key] # some(last.value)
  /\ \E k2 \in Keys \ {last.key} :
       keyHash[k2] = keyHash[last.key] /\ last.view[k2] # none

\* ------------------------------------------------------------------------
\* C2  Overwrite: after insert(insert(m, k, v1), k, v2), lookup of k is
\*     Some(v2) and the size is the size after the first insert.
\* ------------------------------------------------------------------------
Overwrite ==
  (/\ Len(hist) >= 2
   /\ last.op = "insert"
   /\ hist[Len(hist) - 1].op = "insert"
   /\ hist[Len(hist) - 1].key = last.key)
  => /\ lookup(heap, hamt, last.key) = some(last.value)
     /\ hamt.size = last.pre.size

\* two inserts of one key with different values, into a map that holds
\* other keys
OverwriteWitness ==
  /\ Len(hist) >= 3
  /\ last.op = "insert"
  /\ hist[Len(hist) - 1].op = "insert"
  /\ hist[Len(hist) - 1].key = last.key
  /\ hist[Len(hist) - 1].value # last.value
  /\ hist[Len(hist) - 1].pre.size >= 1

\* ------------------------------------------------------------------------
\* C3  Remove-then-lookup: in the map remove(m, k) returns, lookup of k is
\*     None, in particular when m is insert(m0, k, v).
\* ------------------------------------------------------------------------
RemoveThenLookup ==
  Called("remove") => lookup(heap, hamt, last.key) = none

\* remove(insert(m0, k, v), k) where the result still holds another key
RemoveThenLookupWitness ==
  /\ Len(hist) >= 2
  /\ last.op = "remove"
  /\ hist[Len(hist) - 1].op = "insert"
  /\ hist[Len(hist) - 1].key = last.key
  /\ hamt.root # none

\* ------------------------------------------------------------------------
\* C4  Remove of an absent key is a no-op: when lookup(m, k) is None,
\*     remove(m, k) has the size of m and the lookup results of m for every
\*     key.
\* ------------------------------------------------------------------------
RemoveAbsentNoOp ==
  (Called("remove") /\ last.view[last.key] = none)
  => /\ hamt.size = last.pre.size
     /\ View(heap, hamt) = last.view

\* a remove of an absent key that has the hash of a stored key
RemoveAbsentNoOpWitness ==
  /\ Called("remove")
  /\ last.view[last.key] = none
  /\ \E k2 \in Keys \ {last.key} :
       keyHash[k2] = keyHash[last.key] /\ last.view[k2] # none

\* ------------------------------------------------------------------------
\* C5  Size correctness: size is the number of distinct keys stored, which
\*     is the number of leaf entries reachable from the root, whatever the
\*     order of the calls; it is never negative, and the floor at 0 in
\*     remove never changes the result.
\* ------------------------------------------------------------------------
SizeCorrect ==
  /\ hamt.size = Cardinality(Stored)
  /\ hamt.size = EntryCount(heap, hamt)
  /\ hamt.size >= 0
  /\ Called("remove") =>
       LET u == removeFold(prevHeap, last.pre, keyHash[last.key], last.key)
       IN  /\ last.pre.size + u.sizeChange >= 0
           /\ hamt.size = last.pre.size + u.sizeChange

\* a remove that takes a map of three keys to a map of two
SizeCorrectWitness ==
  /\ Called("remove")
  /\ last.pre.size = 3
  /\ hamt.size = 2

RemoveFrame ==
  Called("remove") =>
    \A k2 \in Keys \ {last.key} : lookup(heap, hamt, k2) = last.view[k2]

\* two keys inserted, then the one in the first slot of the root removed:
\* the other is stored
RemoveFrameWitness ==
  /\ Called("remove")
  /\ last.key = m0
  /\ last.view[m0] # none
  /\ last.view[J] # none
  /\ lookup(heap, hamt, J) # none

\* ------------------------------------------------------------------------
\* C8  Persistence: insert and remove never change a node that existed when
\*     they were called: after every call the heap still holds every node it
\*     held before the call, unchanged.  Every map that was ever passed to a
\*     call (a value [root, size] that hist keeps) still has the lookup
\*     results it had for every key, however many calls follow.
\* ------------------------------------------------------------------------
Persistence ==
  /\ Len(prevHeap) <= Len(heap)
  /\ \A a \in DOMAIN prevHeap : heap[a] = prevHeap[a]
  /\ \A i \in DOMAIN hist : View(heap, hist[i].pre) = hist[i].view

\* a non-empty map that was overwritten and removed from two or more calls
\* ago
PersistenceWitness ==
  \E i \in DOMAIN hist :
    /\ i + 1 < Len(hist)
    /\ hist[i].pre.root # none
    /\ \E k \in Keys :
         /\ hist[i].view[k] # none
         /\ hist[i + 1].view[k] # none
         /\ hist[i + 1].view[k] # hist[i].view[k]
         /\ lookup(heap, hamt, k) = none

\* ------------------------------------------------------------------------
\* C9  Collision handling: when two distinct keys have the same 32-bit hash
\*     and both are inserted, lookup returns each key's own value and size
\*     counts both; removing one leaves the other with its value and
\*     decrements size by exactly 1.
\* ------------------------------------------------------------------------
CollisionHandling ==
  \A k1 \in Keys : \A k2 \in Keys \ {k1} :
    keyHash[k1] = keyHash[k2] =>
      /\ (dict[k1] # none /\ dict[k2] # none) =>
           /\ lookup(heap, hamt, k1) = dict[k1]
           /\ lookup(heap, hamt, k2) = dict[k2]
           /\ hamt.size = Cardinality(Stored)
           /\ hamt.size >= 2
      /\ (/\ Called("remove")
          /\ last.key = k1
          /\ last.view[k1] # none
          /\ last.view[k2] # none) =>
           /\ lookup(heap, hamt, k1) = none
           /\ lookup(heap, hamt, k2) = last.view[k2]
           /\ hamt.size = last.pre.size - 1

\* both keys of a colliding pair stored with different values, then the
\* first one of the Leaf removed
CollisionHandlingWitness ==
  /\ Called("remove")
  /\ last.key = Aa
  /\ last.view[Aa] # none
  /\ last.view[BB] # none
  /\ last.view[Aa] # last.view[BB]
  /\ hist[1].key = Aa

\* ------------------------------------------------------------------------
\* C10 The root is absent exactly when size is 0: remove on the empty map
\*     returns the empty map, lookup on the empty map is None, and removing
\*     every key that was inserted gives absent root and size 0.
\* ------------------------------------------------------------------------
EmptyIffSizeZero ==
  /\ hamt.root = none <=> hamt.size = 0
  /\ hamt.root = none => \A k \in Keys : lookup(heap, hamt, k) = none
  /\ Stored = {} => hamt = [root |-> none, size |-> 0]
  /\ (Called("remove") /\ last.pre.root = none) => hamt = [root |-> none, size |-> 0]

\* two keys that share a path inserted and then both removed
EmptyIffSizeZeroWitness ==
  /\ Len(hist) = 4
  /\ hist[1].op = "insert" /\ hist[1].key = sxk
  /\ hist[2].op = "insert" /\ hist[2].key = Aa
  /\ hist[3].op = "remove" /\ hist[3].key = sxk
  /\ hist[4].op = "remove" /\ hist[4].key = Aa
  /\ hamt.root = none

\* ------------------------------------------------------------------------
\* Vocabulary of the properties of the trie
\* ------------------------------------------------------------------------

\* the nodes reachable from a node that sits at a shift, each as the pair
\* of its reference and the shift it sits at
RECURSIVE NodesAt(_, _, _)
NodesAt(hp, node, shift) ==
  IF hp[node].type = "Leaf"
  THEN {<<node, shift>>}
  ELSE {<<node, shift>>} \cup
       UNION {NodesAt(hp, hp[node].children[i], shift + 5) :
                i \in DOMAIN hp[node].children}

\* the nodes reachable from the root of a map
NodesOf(hp, m) == IF m.root = none THEN {} ELSE NodesAt(hp, m.root.value, 0)

IsLeaf(hp, n) == hp[n[1]].type = "Leaf"

IsInternal(hp, n) == hp[n[1]].type = "Internal"

\* bit i of a bitmap is set
HasBit(bitmap, i) == BitAnd(bitmap, Shl(Num(1), i)) # Num(0)

\* ------------------------------------------------------------------------
\* C12 No empty node: after any sequence of insert and remove calls from the
\*     empty map, no Leaf with zero entries and no Internal node with a zero
\*     bitmap or with zero children is reachable from the root.
\* ------------------------------------------------------------------------
NoEmptyNode ==
  \A n \in NodesOf(heap, hamt) :
    IF IsLeaf(heap, n)
    THEN Len(heap[n[1]].entries) > 0
    ELSE /\ ToUint32(heap[n[1]].bitmap) # Num(0)
         /\ Len(heap[n[1]].children) > 0

\* a remove that took the only entry of a Leaf out of a two-child Internal
\* node under a chain of Internal nodes
NoEmptyNodeWitness ==
  /\ Called("remove")
  /\ last.view[last.key] # none
  /\ last.pre.size = 2
  /\ hamt.size = 1
  /\ Cardinality(NodesOf(prevHeap, last.pre)) = 5
  /\ Cardinality(NodesOf(heap, hamt)) = 4

\* ------------------------------------------------------------------------
\* C13 Every Internal node reachable from the root of a reachable map has as
\*     many children as its bitmap has bits set.
\* ------------------------------------------------------------------------
ChildrenMatchBitmap ==
  \A n \in NodesOf(heap, hamt) :
    IsInternal(heap, n) =>
      Len(heap[n[1]].children) = ToNat(popcount(heap[n[1]].bitmap))

\* an insert that added a third child to the root
ChildrenMatchBitmapWitness ==
  /\ Called("insert")
  /\ hamt.root # none
  /\ heap[hamt.root.value].type = "Internal"
  /\ Len(heap[hamt.root.value].children) = 3
  /\ Len(prevHeap[last.pre.root.value].children) = 2

LeafConsistent ==
  \A n \in NodesOf(heap, hamt) :
    IsLeaf(heap, n) =>
      LET entries == heap[n[1]].entries
      IN  /\ \A e \in DOMAIN entries : keyHash[entries[e][1]] = heap[n[1]].hash
          /\ \A e1, e2 \in DOMAIN entries :
               e1 # e2 => /\ entries[e1][1] # entries[e2][1]
                          /\ keyHash[entries[e1][1]] = keyHash[entries[e2][1]]

\* a Leaf with two entries next to a Leaf of another hash
LeafConsistentWitness ==
  /\ \E n \in NodesOf(heap, hamt) :
       IsLeaf(heap, n) /\ Len(heap[n[1]].entries) = 2
  /\ \E n \in NodesOf(heap, hamt) :
       IsLeaf(heap, n) /\ Len(heap[n[1]].entries) = 1

\* ------------------------------------------------------------------------
\* C16 Bounded depth: in every reachable map the Internal nodes are at the
\*     shifts 0, 5, 10, 15, 20, 25, 30 and no deeper, so that every Leaf is
\*     at depth at most 7; keys that agree on the slices at all of these
\*     shifts have equal hashes and, when stored, are in one Leaf.
\* ------------------------------------------------------------------------
BoundedDepth ==
  /\ \A n \in NodesOf(heap, hamt) :
       IF IsInternal(heap, n)
       THEN n[2] \in {0, 5, 10, 15, 20, 25, 30}
       ELSE n[2] \div 5 <= 7
  /\ \A k1, k2 \in Keys :
       (\A s \in {0, 5, 10, 15, 20, 25, 30} :
          maskHash(keyHash[k1], s) = maskHash(keyHash[k2], s))
       => /\ keyHash[k1] = keyHash[k2]
          /\ (lookup(heap, hamt, k1) # none /\ lookup(heap, hamt, k2) # none)
             => \E n \in NodesOf(heap, hamt) :
                  /\ IsLeaf(heap, n)
                  /\ \E e1, e2 \in DOMAIN heap[n[1]].entries :
                       /\ heap[n[1]].entries[e1][1] = k1
                       /\ heap[n[1]].entries[e2][1] = k2

\* an Internal node at shift 30 over a Leaf with one entry and a Leaf
\* with two entries at depth 7
BoundedDepthWitness ==
  /\ \E n \in NodesOf(heap, hamt) : IsInternal(heap, n) /\ n[2] = 30
  /\ \E n \in NodesOf(heap, hamt) :
       IsLeaf(heap, n) /\ n[2] = 35 /\ Len(heap[n[1]].entries) = 2
  /\ \E n \in NodesOf(heap, hamt) :
       IsLeaf(heap, n) /\ n[2] = 35 /\ Len(heap[n[1]].entries) = 1

\* ------------------------------------------------------------------------
\* Vocabulary of the properties of one call
\* ------------------------------------------------------------------------

\* the path a hash selects from a node at a shift: the node, then, while the
\* node is an Internal node with the bit of the hash set, the path from the
\* child for that bit; each node as the pair of its reference and its shift
RECURSIVE PathAt(_, _, _, _)
PathAt(hp, node, hsh, shift) ==
  IF hp[node].type = "Internal" /\ BitAnd(hp[node].bitmap, bitpos(hsh, shift)) # Num(0)
  THEN <<<<node, shift>>>> \o
       PathAt(hp,
              hp[node].children[ToNat(popcount(BitAnd(hp[node].bitmap,
                                   Minus(bitpos(hsh, shift), Num(1))))) + 1],
              hsh, shift + 5)
  ELSE <<<<node, shift>>>>

\* the path a hash selects in a map
PathOf(hp, m, hsh) ==
  IF m.root = none THEN <<>> ELSE PathAt(hp, m.root.value, hsh, 0)

\* ------------------------------------------------------------------------
\* C17 Leaf merge rule: when insert reaches a Leaf whose hash differs from
\*     the hash of the new key at shift s, the result is a chain of
\*     single-child Internal nodes, one for every shift from s upward at
\*     which the two hashes have the same 5-bit slice, each with exactly
\*     the bit of that slice in its bitmap, ending in a two-child Internal
\*     node at the first shift where the slices differ; its bitmap has
\*     exactly the two bits set and its children are the existing Leaf,
\*     unchanged, and a new Leaf with the one new entry, the one with the
\*     lower bit in slot 0.
\* ------------------------------------------------------------------------

\* the node r at shift s is the chain that merges the Leaf and the last call
RECURSIVE MergedShape(_, _, _)
MergedShape(r, s, leaf) ==
  LET slice1 == maskHash(prevHeap[leaf].hash, s)
      slice2 == maskHash(keyHash[last.key], s)
  IN  /\ s <= 30
      /\ heap[r].type = "Internal"
      /\ IF slice1 = slice2
         THEN /\ ToUint32(heap[r].bitmap) = ToUint32(Shl(Num(1), ToNat(slice1)))
              /\ Len(heap[r].children) = 1
              /\ MergedShape(heap[r].children[1], s + 5, leaf)
         ELSE /\ \A i \in 0..31 :
                   HasBit(heap[r].bitmap, i) <=> i \in {ToNat(slice1), ToNat(slice2)}
              /\ Len(heap[r].children) = 2
              /\ \E new \in DOMAIN heap \ DOMAIN prevHeap :
                   /\ heap[new] = createLeaf(keyHash[last.key], last.key, last.value)
                   /\ heap[r].children =
                        IF ToNat(slice1) < ToNat(slice2)
                        THEN <<leaf, new>>
                        ELSE <<new, leaf>>
              /\ heap[leaf] = prevHeap[leaf]

\* the paths old and new that the key of the last call selects in the map
\* before and in the map after the call obey the rule
MergeRuleOn(old, new) ==
  (IsLeaf(prevHeap, old[Len(old)])
   /\ prevHeap[old[Len(old)][1]].hash # keyHash[last.key])
  => /\ Len(new) >= Len(old)
     /\ MergedShape(new[Len(old)][1], old[Len(old)][2], old[Len(old)][1])

LeafMergeRule ==
  (Called("insert") /\ last.pre.root # none)
  => MergeRuleOn(PathOf(prevHeap, last.pre, keyHash[last.key]),
                 PathOf(heap, hamt, keyHash[last.key]))

\* an insert that reached, below the root, a Leaf of another hash with
\* which the key shares the slice at the shift of the Leaf
LeafMergeRuleWitness ==
  /\ Called("insert")
  /\ last.pre.root # none
  /\ LET old == PathOf(prevHeap, last.pre, keyHash[last.key])
     IN  /\ Len(old) = 2
         /\ IsLeaf(prevHeap, old[2])
         /\ prevHeap[old[2][1]].hash # keyHash[last.key]
         /\ maskHash(prevHeap[old[2][1]].hash, 5) = maskHash(keyHash[last.key], 5)
  /\ Len(PathOf(heap, hamt, keyHash[last.key])) = 4

\* ------------------------------------------------------------------------
\* C18 Remove at an Internal node whose child subtree contained the key:
\*     if the child subtree becomes absent, the result is absent when the
\*     bitmap with that bit cleared is zero, and otherwise an Internal node
\*     whose bitmap is the old bitmap with exactly that bit cleared and
\*     whose children are the old children with exactly that slot excised;
\*     if the child subtree still exists, the result has the unchanged
\*     bitmap and the old children with only that one slot replaced.
\* ------------------------------------------------------------------------

\* what the call returned for the j-th node of the path of the key in the
\* map before the call, read from the path of the key in the map after it
ResultAt(new, j) == IF j <= Len(new) THEN some(new[j][1]) ELSE none

\* the result r of the Internal node n at a shift, for the result rc of
\* the child for the key of the last call
RemoveRuleAt(n, shift, r, rc) ==
  LET bit == bitpos(keyHash[last.key], shift)
      idx == ToNat(popcount(BitAnd(n.bitmap, Minus(bit, Num(1)))))
      cleared == BitAnd(n.bitmap, BitNot(bit))
  IN  IF rc = none
      THEN IF ToUint32(cleared) = Num(0)
           THEN r = none
           ELSE /\ r # none
                /\ heap[r.value].type = "Internal"
                /\ ToUint32(heap[r.value].bitmap) = ToUint32(cleared)
                /\ heap[r.value].children = removeAt(n.children, idx)
      ELSE /\ r # none
           /\ heap[r.value].type = "Internal"
           /\ heap[r.value].bitmap = n.bitmap
           /\ heap[r.value].children = [n.children EXCEPT ![idx + 1] = rc.value]

\* the result r of the Leaf that held the key of the last call
RemovedFromLeaf(leaf, r) ==
  IF Len(leaf.entries) = 1
  THEN r = none
  ELSE /\ r # none
       /\ heap[r.value].type = "Leaf"
       /\ heap[r.value].entries = filterOut(leaf.entries, last.key)

\* the paths old and new that the key of the last call selects in the map
\* before and in the map after the call obey the rule
RemoveRuleOn(old, new) ==
  /\ RemovedFromLeaf(prevHeap[old[Len(old)][1]], ResultAt(new, Len(old)))
  /\ \A j \in 1..(Len(old) - 1) :
       RemoveRuleAt(prevHeap[old[j][1]], old[j][2],
                    ResultAt(new, j), ResultAt(new, j + 1))

InternalRemoveRule ==
  (Called("remove") /\ last.view[last.key] # none)
  => RemoveRuleOn(PathOf(prevHeap, last.pre, keyHash[last.key]),
                  PathOf(heap, hamt, keyHash[last.key]))

\* a remove that emptied a Leaf under three Internal nodes: the lowest one
\* lost a slot and the two above it had a slot replaced
InternalRemoveRuleWitness ==
  /\ Called("remove")
  /\ last.view[last.key] # none
  /\ Len(PathOf(prevHeap, last.pre, keyHash[last.key])) = 4
  /\ Len(PathOf(heap, hamt, keyHash[last.key])) = 3
  /\ hamt.size = 1

\* ------------------------------------------------------------------------
\* C19 Structural sharing: for m2 = insert(m1, k, v) or m2 = remove(m1, k),
\*     every node of m2 that is not a node of m1 lies on the single
\*     root-to-leaf path selected by hash(k), and every child subtree
\*     hanging off that path is the identical node, by reference, in m1
\*     and m2.
\* ------------------------------------------------------------------------

\* the references of a set of nodes or of a path
Refs(nodes) == {n[1] : n \in nodes}

PathRefs(path) == {path[j][1] : j \in DOMAIN path}

\* the children of the Internal nodes of a path that are not on the path,
\* each with the level of its parent and the place of its branch index
OffPath(hp, path) ==
  {<<j, i, hp[path[j][1]].children[
              ToNat(popcount(BitAnd(hp[path[j][1]].bitmap,
                                    Minus(Shl(Num(1), i), Num(1))))) + 1]>> :
     <<j, i>> \in {x \in (DOMAIN path) \X (0..31) :
                     /\ hp[path[x[1]][1]].type = "Internal"
                     /\ HasBit(hp[path[x[1]][1]].bitmap, x[2])
                     /\ Num(x[2]) # maskHash(keyHash[last.key], path[x[1]][2])}}

\* the maps before and after the last call, with the nodes m1 of the map
\* before it and the paths old and new the key selects in the two maps
SharingOn(m1, old, new) ==
  /\ Refs(NodesOf(heap, hamt)) \ m1 \subseteq PathRefs(new)
  /\ \A c \in OffPath(heap, new) :
       /\ c[3] \in m1
       /\ heap[c[3]] = prevHeap[c[3]]
       /\ (c[1] <= Len(old) /\ IsInternal(prevHeap, old[c[1]]))
          => c \in OffPath(prevHeap, old)
  /\ OffPath(prevHeap, old) \subseteq OffPath(heap, new)

StructuralSharing ==
  Len(hist) > 0
  => SharingOn(Refs(NodesOf(prevHeap, last.pre)),
               PathOf(prevHeap, last.pre, keyHash[last.key]),
               PathOf(heap, hamt, keyHash[last.key]))

\* an insert that made new nodes on a path of four nodes and left a Leaf
\* hanging off the root in its place
StructuralSharingWitness ==
  /\ Called("insert")
  /\ last.pre.size = 2
  /\ hamt.size = 3
  /\ Len(PathOf(heap, hamt, keyHash[last.key])) = 4
  /\ Cardinality(OffPath(heap, PathOf(heap, hamt, keyHash[last.key]))) = 2
  /\ Cardinality(Refs(NodesOf(heap, hamt)) \ Refs(NodesOf(prevHeap, last.pre))) = 4

\* ------------------------------------------------------------------------
\* C20 Remove of a key that is not stored returns, at every level of the
\*     recursion, the original node by identity with deleted = false: the
\*     root of the resulting map is the very node that is the root of the
\*     input map and no new trie node is created.  This covers a Leaf with
\*     another hash, a Leaf with the hash but without the key, and an
\*     Internal node whose bit for the hash is unset.
\* ------------------------------------------------------------------------

\* removeNode, called on every node of a path for the key of the last call,
\* returns that node and false and constructs nothing
UnchangedOn(path) ==
  \A j \in DOMAIN path :
    removeNode(prevHeap, path[j][1], keyHash[last.key], path[j][2], last.key)
      = [heap |-> prevHeap, node |-> some(path[j][1]), deleted |-> FALSE]

RemoveAbsentIdentity ==
  (Called("remove") /\ last.view[last.key] = none)
  => /\ hamt.root = last.pre.root
     /\ heap = prevHeap
     /\ UnchangedOn(PathOf(prevHeap, last.pre, keyHash[last.key]))

\* a remove that went down three Internal nodes to a Leaf that has the hash
\* of the key and not the key
RemoveAbsentIdentityWitness ==
  /\ Called("remove")
  /\ last.view[last.key] = none
  /\ LET path == PathOf(prevHeap, last.pre, keyHash[last.key])
     IN  /\ Len(path) = 4
         /\ IsLeaf(prevHeap, path[4])
         /\ prevHeap[path[4][1]].hash = keyHash[last.key]

\* ------------------------------------------------------------------------
\* C11 Termination: insert, lookup and remove terminate for every reachable
\*     map and every key, also for a key whose 32-bit hash is the hash of a
\*     stored key.  mergeLeaves is only ever called with two different
\*     hashes and stops recursing at the first 5-bit slice where they
\*     differ, so that keys of one hash are stored in one Leaf instead of
\*     recursing forever.
\* ------------------------------------------------------------------------

\* the innermost frame makes a call exactly when frames are pending, and
\* every frame of mergeLeaves has a Leaf of another hash than the key, at a
\* shift up to 30 below which the two hashes have the same slices
MergeFramesSound ==
  /\ client.stack # <<>> => (client.pending = <<>> <=> Callee(Top) = none)
  /\ \A i \in DOMAIN client.stack :
       client.stack[i].fn = "mergeLeaves" =>
         /\ heap[client.stack[i].node].hash # keyHash[client.stack[i].key]
         /\ client.stack[i].shift <= 30
         /\ \A t \in {0, 5, 10, 15, 20, 25, 30} :
              t < client.stack[i].shift =>
                maskHash(heap[client.stack[i].node].hash, t)
                  = maskHash(keyHash[client.stack[i].key], t)

Termination ==
  /\ [](MergeFramesSound)
  /\ (client.stack # <<>>) ~> (client.stack = <<>>)

\* an insert of a key is about to return from a Leaf below the root that
\* has the hash of the key and not the key
TerminationWitness ==
  /\ client.stack # <<>>
  /\ Top.fn = "updateNode"
  /\ Top.shift > 0
  /\ heap[Top.node].type = "Leaf"
  /\ heap[Top.node].hash = keyHash[Top.key]
  /\ findIndex(heap[Top.node].entries, Top.key) = -1
  /\ client.pending = <<>>

\* ------------------------------------------------------------------------
\* C21 Key uniqueness: in every map reachable from the empty map, each key
\*     occurs in at most one entry among all Leaves reachable from the
\*     root, so that the filter of removeLeafNode drops at most one entry
\*     in a remove and the size decrement of exactly 1 is the number of
\*     entries dropped.
\* ------------------------------------------------------------------------

\* the entries of a map, left to right
EntriesOfMap(hp, m) == IF m.root = none THEN <<>> ELSE entriesOf(hp, m.root.value)

\* no key has two entries among the entries
UniqueIn(entries) ==
  \A e1, e2 \in DOMAIN entries : entries[e1][1] = entries[e2][1] => e1 = e2

\* the last call took the number of entries from before to after: it
\* dropped at most one entry and the size went down by that number
DroppedOn(before, after) ==
  /\ Len(before) - Len(after) \in {0, 1}
  /\ last.pre.size - hamt.size = Len(before) - Len(after)
  /\ Len(before) - Len(after) = 1 <=> last.view[last.key] # none

KeyUniqueness ==
  /\ UniqueIn(EntriesOfMap(heap, hamt))
  /\ Called("remove")
     => DroppedOn(EntriesOfMap(prevHeap, last.pre), EntriesOfMap(heap, hamt))

\* a remove of a key from a Leaf of two entries: one entry is left
KeyUniquenessWitness ==
  /\ Called("remove")
  /\ last.view[last.key] # none
  /\ \E k2 \in Keys \ {last.key} :
       keyHash[k2] = keyHash[last.key] /\ last.view[k2] # none
  /\ Len(EntriesOfMap(prevHeap, last.pre)) = 2
  /\ Len(EntriesOfMap(heap, hamt)) = 1
  /\ hamt.size = 1

\* ------------------------------------------------------------------------
\* C22 Insert-only history independence: for any finite set of key/value
\*     pairs with distinct keys, inserting them into the empty map in any
\*     two different orders yields tries that are structurally equal: the
\*     same node kinds, bitmaps as bit sets, child order, Leaf hashes and
\*     sets of Leaf entries; they differ at most in the order of the
\*     entries inside a Leaf that holds keys of one hash.
\* ------------------------------------------------------------------------

\* the structure below a node: its kind, with the hash and the set of
\* entries of a Leaf, and with the set of bits and the structures of the
\* children, in their order, of an Internal node
RECURSIVE ShapeOf(_, _)
ShapeOf(hp, node) ==
  IF hp[node].type = "Leaf"
  THEN [type |-> "Leaf", hash |-> hp[node].hash,
        entries |-> {hp[node].entries[e] : e \in DOMAIN hp[node].entries}]
  ELSE [type |-> "Internal",
        bits |-> {i \in 0..31 : HasBit(hp[node].bitmap, i)},
        children |-> [c \in DOMAIN hp[node].children |->
                        ShapeOf(hp, hp[node].children[c])]]

\* the structure of a map
ShapeOfMap(hp, m) == IF m.root = none THEN <<>> ELSE <<ShapeOf(hp, m.root.value)>>

\* the map and the heap after the inserts of a sequence of key/value pairs,
\* one after the other, into a map
RECURSIVE insertAll(_, _, _)
insertNext(r, pairs) == insertAll(r.heap, r.hamt, pairs)

insertAll(hp, m, pairs) ==
  IF pairs = <<>>
  THEN [heap |-> hp, hamt |-> m]
  ELSE insertNext(insert(hp, m, Head(pairs)[1], Head(pairs)[2]), Tail(pairs))

\* the orders of n things
Orders(n) == {p \in [1..n -> 1..n] : \A i, j \in 1..n : p[i] = p[j] => i = j}

\* the map the calls made so far give when they are made in the order p on
\* the empty map
Reordered(p) ==
  insertAll(<<>>, [root |-> none, size |-> 0],
            [i \in DOMAIN hist |-> <<hist[p[i]].key, hist[p[i]].value>>])

\* the calls made so far are inserts of distinct keys
InsertsOfDistinctKeys ==
  /\ \A i \in DOMAIN hist : hist[i].op = "insert"
  /\ \A i, j \in DOMAIN hist : hist[i].key = hist[j].key => i = j

\* the map r has the structure of the current map
SameShape(r) == ShapeOfMap(r.heap, r.hamt) = ShapeOfMap(heap, hamt)

\* the map r has the entries of its Leaves in another order than the
\* current map
OtherEntryOrder(r) == EntriesOfMap(r.heap, r.hamt) # EntriesOfMap(heap, hamt)

HistoryIndependence ==
  InsertsOfDistinctKeys => \A p \in Orders(Len(hist)) : SameShape(Reordered(p))

\* three keys inserted, two of them with one hash: in another order the
\* entries of their Leaf are in the other order
HistoryIndependenceWitness ==
  /\ InsertsOfDistinctKeys
  /\ Len(hist) = 3
  /\ hamt.root # none
  /\ heap[hamt.root.value].type = "Internal"
  /\ \E p \in Orders(Len(hist)) : OtherEntryOrder(Reordered(p))

====
